---- MODULE Spec2Model ----
(***************************************************************************)
(* Model of ImageFillRotateInvocation (src/image_fill_rotate.py): the      *)
(* tiling/rotating resampler get_tiled_rotated_image and its caller        *)
(* invoke.                                                                  *)
(*                                                                          *)
(* Numbers.  The code computes in IEEE-754 binary64.  A coordinate is      *)
(* modelled as a record [fin, m, r]: the real number m/Scale + r*Ulp,       *)
(* where Scale = 1000 and Ulp = 2^-54/1000, or NaN when fin is FALSE.       *)
(* m carries the part of the value that is visible at pixel resolution, r   *)
(* the residual that binary64 leaves on a value that is a multiple of 1/2   *)
(* in exact arithmetic (sin(2*pi) is -2.449e-16, not 0).  Round rounds the  *)
(* residual to the binary64 grid of the value's binade, ties to even, as    *)
(* every float operation of the code does.                                  *)
(*                                                                          *)
(* Pixels.  invoke divides every byte b of the stored picture by 255.0; an  *)
(* array element b/255.0 is represented by its numerator b.  An array cell  *)
(* [r][c] holds the tuple of its band values; a 2-D array has one value per *)
(* cell and its shape has two entries.                                      *)
(***************************************************************************)
EXTENDS Integers, Sequences, FiniteSets, TLC

VARIABLES pc, pil, angle, width, height, image, new_img, newx, newy,
          divByZero, err

vars == <<pc, pil, angle, width, height, image, new_img, newx, newy,
          divByZero, err>>

(* ------------------------------ bounds --------------------------------- *)
\* largest source height/width tried (0 is tried too)
MaxSrc == 4
\* largest target width/height tried
MaxDim == 4

(* --------------------------- binary64 values --------------------------- *)
Scale == 1000

V(m, r) == [fin |-> TRUE, m |-> m, r |-> r]
NaN == [fin |-> FALSE, m |-> 0, r |-> 0]
IntV(n) == V(Scale * n, 0)

Abs(a) == IF a < 0 THEN -a ELSE a

\* integer division truncating toward zero (C cast semantics), b > 0
TDiv(a, b) == IF a >= 0 THEN a \div b ELSE -((-a) \div b)

\* largest (Scale/2)*2^k not above a, for a >= Scale/2
RECURSIVE Binade(_, _)
Binade(a, b) == IF 2 * b <= a THEN Binade(a, 2 * b) ELSE b

\* round-half-even of rr/s
RoundHalfEven(rr, s) ==
  LET q   == rr \div s
      rem == rr - q * s
  IN  IF 2 * rem < s THEN q
      ELSE IF 2 * rem > s THEN q + 1
      ELSE IF q % 2 = 0 THEN q ELSE q + 1

\* the binary64 nearest to m/Scale + r*Ulp
Round(m, r) ==
  IF m = 0 THEN V(0, r)
  ELSE IF m % (Scale \div 2) # 0 THEN V(m, 0)
  ELSE LET a  == Abs(m)
           sg == IF m > 0 THEN 1 ELSE -1
           rr == sg * r
           b  == Binade(a, Scale \div 2)
           s  == IF rr < 0 /\ b = a THEN 2 * b ELSE 4 * b
       IN  V(m, sg * RoundHalfEven(rr, s) * s)

Add(a, b) == IF a.fin /\ b.fin THEN Round(a.m + b.m, a.r + b.r) ELSE NaN
Sub(a, b) == IF a.fin /\ b.fin THEN Round(a.m - b.m, a.r - b.r) ELSE NaN
\* int64 index k times a float
Mul(k, v) == IF v.fin THEN Round(k * v.m, k * v.r) ELSE NaN

Sign(v) == IF v.m > 0 THEN 1 ELSE IF v.m < 0 THEN -1
           ELSE IF v.r > 0 THEN 1 ELSE IF v.r < 0 THEN -1 ELSE 0

\* v >= o and v < 0 for a finite v; every comparison with NaN is false
GeqInt(v, o) == v.fin /\ Sign(V(v.m - Scale * o, v.r)) >= 0
LtZero(v) == v.fin /\ Sign(v) < 0

\* (v / o).astype("int") for finite v and o > 0
TruncDiv(v, o) ==
  IF v.m % (Scale * o) # 0 THEN TDiv(v.m, Scale * o)
  ELSE LET n == v.m \div (Scale * o)
       IN  IF n > 0 /\ v.r < 0 THEN n - 1
           ELSE IF n < 0 /\ v.r > 0 THEN n + 1
           ELSE n

\* Trunc gone wrong: the cast rounds to the nearest integer
Trunc_Nearest(v) == TruncDiv(V(v.m + (IF v.m >= 0 THEN Scale \div 2 ELSE -(Scale \div 2)), v.r), 1)

\* v.astype("int") for finite v
Trunc(v) == TruncDiv(v, 1)


(* ------------------------------ inputs --------------------------------- *)
Finite(d) == [kind |-> "finite", deg |-> d]
Angles == {0, 30, 90, 150, 180, 270, 360}
AngleInputs == {Finite(d) : d \in Angles}
                 \cup {[kind |-> "nan", deg |-> 0], [kind |-> "inf", deg |-> 0]}
IsFinite(a) == a.kind = "finite"

Modes == {"L", "LA", "RGB"}
Patterns == {"coded", "checker"}

\* the byte of the stored picture at row r, column c
Byte(pat, w, r, c) == IF pat = "coded" THEN r * w + c ELSE 255 * ((r + c) % 2)

\* one pixel of a PIL picture of the given mode, as the tuple of its bands
Pixel(mode, b) == IF mode = "L" THEN <<b>>
                  ELSE IF mode = "LA" THEN <<b, 255>>
                  ELSE <<b, 255 - b, b>>

Picture(mode, h, w, pat) ==
  [mode |-> mode, h |-> h, w |-> w,
   data |-> [r \in 0..(h - 1) |-> [c \in 0..(w - 1) |-> Pixel(mode, Byte(pat, w, r, c))]]]

Pictures == {Picture(mode, h, w, pat) :
               mode \in Modes, h \in 0..MaxSrc, w \in 0..MaxSrc, pat \in Patterns}

Bands(mode) == IF mode = "LA" THEN 2 ELSE 3

\* np.array(image) / 255.0 : "L" gives a 2-D array, the other modes a 3-D one
ToArray(p) ==
  [shape |-> IF p.mode = "L" THEN <<p.h, p.w>> ELSE <<p.h, p.w, Bands(p.mode)>>,
   data  |-> p.data]

NoArray == [shape |-> <<>>, data |-> <<>>]

(* -------------------- get_tiled_rotated_image, by line ------------------ *)
\* a cell np.empty has allocated and nothing has written yet
Unwritten == -1

\* np.empty([height, width]) or np.empty([height, width, image.shape[2]])
Empty(W, H, img) ==
  IF Len(img.shape) = 2
  THEN [shape |-> <<H, W>>,
        data  |-> [r \in 0..(H - 1) |-> [c \in 0..(W - 1) |-> <<Unwritten>>]]]
  ELSE [shape |-> <<H, W, img.shape[3]>>,
        data  |-> [r \in 0..(H - 1) |-> [c \in 0..(W - 1) |->
                     [k \in 1..img.shape[3] |-> Unwritten]]]]

oheight(img) == img.shape[1]
owidth(img) == img.shape[2]
\* oheight2 gone wrong: the half is rounded up
oheight2_Ceil(img) == (oheight(img) + 1) \div 2
oheight2(img) == oheight(img) \div 2
\* owidth2 gone wrong: the width is not halved
owidth2_Whole(img) == owidth(img)
owidth2(img) == owidth(img) \div 2

\* np.sin and np.cos of np.pi * angle / 180, as binary64 returns them
TrigTable(a) ==
  IF ~IsFinite(a) THEN [sin |-> NaN, cos |-> NaN]
  ELSE CASE a.deg = 0   -> [sin |-> V(0, 0),                 cos |-> V(Scale, 0)]
         [] a.deg = 30  -> [sin |-> V(Scale \div 2, -1000),  cos |-> V(866, 0)]
         [] a.deg = 90  -> [sin |-> V(Scale, 0),             cos |-> V(0, 1103)]
         [] a.deg = 150 -> [sin |-> V(Scale \div 2, -1000),  cos |-> V(-866, 0)]
         [] a.deg = 180 -> [sin |-> V(0, 2206),              cos |-> V(-Scale, 0)]
         [] a.deg = 270 -> [sin |-> V(-Scale, 0),            cos |-> V(0, -3309)]
         [] a.deg = 360 -> [sin |-> V(0, -4412),             cos |-> V(Scale, 0)]
         [] a.deg = 390 -> [sin |-> V(Scale \div 2, -13000), cos |-> V(866, 0)]
         [] a.deg = 450 -> [sin |-> V(Scale, 0),             cos |-> V(0, 5515)]
         [] a.deg = 510 -> [sin |-> V(Scale \div 2, -4000),  cos |-> V(-866, 0)]
         [] a.deg = 540 -> [sin |-> V(0, 6618),              cos |-> V(-Scale, 0)]
         [] a.deg = 630 -> [sin |-> V(-Scale, 0),            cos |-> V(0, -7721)]
         [] a.deg = 720 -> [sin |-> V(0, -8825),             cos |-> V(Scale, 0)]

\* Trig gone wrong: the angle is clamped to one turn before the conversion
Trig_Clamped(a) == TrigTable(IF a.deg > 360 THEN [a EXCEPT !.deg = 360] ELSE a)
\* lines 36-37
Trig(a) == TrigTable(a)

\* nx = xc * cos - yc * sin ; newx = nx + owidth2
RotX(c, r, img, a) ==
  Add(Sub(Mul(c, Trig(a).cos), Mul(r, Trig(a).sin)), IntV(owidth2(img)))
\* ny = xc * sin + yc * cos ; newy = ny + oheight2
RotY(c, r, img, a) ==
  Add(Add(Mul(c, Trig(a).sin), Mul(r, Trig(a).cos)), IntV(oheight2(img)))

\* WrapAdjust gone wrong: the quotient is not multiplied by the size
WrapAdjust_NoFactor(v, o) ==
  IF o = 0 THEN v
  ELSE IF GeqInt(v, o) THEN Sub(v, IntV(TruncDiv(v, o)))
  ELSE IF LtZero(v) THEN Add(v, IntV(Abs(TruncDiv(v, o)) + 1))
  ELSE v

\* the np.where of lines 46-50 (52-56) on one element; with o = 0 both
\* products are 0 * <cast of inf or nan> = 0 and the element is unchanged
WrapAdjust(v, o) ==
  IF o = 0 THEN v
  ELSE IF GeqInt(v, o) THEN Sub(v, IntV(o * TruncDiv(v, o)))
  ELSE IF LtZero(v) THEN Add(v, IntV(o * (Abs(TruncDiv(v, o)) + 1)))
  ELSE v

\* FloatMod gone wrong: the final modulo is left out
FloatMod_Skipped(v, o) == v

\* v % o of numpy: fmod, then the divisor is added to a negative remainder
FloatMod(v, o) ==
  IF o = 0 \/ ~v.fin THEN NaN
  ELSE LET rem == V(v.m - Scale * o * TruncDiv(v, o), v.r)
       IN  IF Sign(rem) < 0 THEN Add(rem, IntV(o)) ELSE rem

\* what astype("int") makes of NaN is not defined by C: x86-64 builds give
\* the smallest int64 (here the smallest integer of the model), arm64 gives 0
NaNCasts == {-2147483647, 0}

\* v.astype("int"), u being the build's cast of NaN
AsInt(v, u) == IF v.fin THEN Trunc(v) ELSE u

\* (newx % owidth).astype("int") after the np.where, on one element
WrapIndex(v, o, u) == AsInt(FloatMod(WrapAdjust(v, o), o), u)

\* numpy accepts an index i on an axis of size n iff -n <= i < n
ValidIdx(i, n) == -n <= i /\ i < n
NormIdx(i, n) == IF i < 0 THEN i + n ELSE i

Rows(H) == 0..(H - 1)
Cols(W) == 0..(W - 1)

(* ------------------------------ actions -------------------------------- *)
Init ==
  /\ pc = "start"
  /\ pil \in Pictures
  /\ angle \in AngleInputs
  /\ width \in 1..MaxDim
  /\ height \in 1..MaxDim
  /\ image = NoArray
  /\ new_img = NoArray
  /\ newx = <<>>
  /\ newy = <<>>
  /\ divByZero = FALSE
  /\ err = "none"

\* lines 65-68: load the picture, scale it, call get_tiled_rotated_image
invoke ==
  /\ pc = "start"
  /\ image' = ToArray(pil)
  /\ pc' = "called"
  /\ UNCHANGED <<pil, angle, width, height, new_img, newx, newy, divByZero, err>>

\* lines 32-35
Allocate ==
  /\ pc = "called"
  /\ new_img' = Empty(width, height, image)
  /\ pc' = "allocated"
  /\ UNCHANGED <<pil, angle, width, height, image, newx, newy, divByZero, err>>

\* lines 36-44
Rotate ==
  /\ pc = "allocated"
  /\ newx' = [r \in Rows(height) |-> [c \in Cols(width) |-> RotX(c, r, image, angle)]]
  /\ newy' = [r \in Rows(height) |-> [c \in Cols(width) |-> RotY(c, r, image, angle)]]
  /\ pc' = "rotated"
  /\ UNCHANGED <<pil, angle, width, height, image, new_img, divByZero, err>>

\* lines 46-56; np.where evaluates newx / owidth on every element
Wrap ==
  /\ pc = "rotated"
  /\ newx' = [r \in Rows(height) |-> [c \in Cols(width) |->
                WrapAdjust(newx[r][c], owidth(image))]]
  /\ newy' = [r \in Rows(height) |-> [c \in Cols(width) |->
                WrapAdjust(newy[r][c], oheight(image))]]
  /\ divByZero' = (owidth(image) = 0 \/ oheight(image) = 0)
  /\ pc' = "wrapped"
  /\ UNCHANGED <<pil, angle, width, height, image, new_img, err>>

\* lines 58-59
Index ==
  /\ pc = "wrapped"
  /\ \E u \in NaNCasts :
       /\ newx' = [r \in Rows(height) |-> [c \in Cols(width) |->
                     AsInt(FloatMod(newx[r][c], owidth(image)), u)]]
       /\ newy' = [r \in Rows(height) |-> [c \in Cols(width) |->
                     AsInt(FloatMod(newy[r][c], oheight(image)), u)]]
  /\ pc' = "indexed"
  /\ UNCHANGED <<pil, angle, width, height, image, new_img, divByZero, err>>

\* every index of image[newy, newx] is inside the source
Readable ==
  \A r \in Rows(height), c \in Cols(width) :
     /\ ValidIdx(newy[r][c], oheight(image))
     /\ ValidIdx(newx[r][c], owidth(image))

\* lines 61-62: the right-hand side is read first, then the three-index
\* assignment is applied to new_img
Sample ==
  /\ pc = "indexed"
  /\ IF ~Readable
     THEN /\ pc' = "error"
          /\ err' = "IndexError: index out of bounds"
          /\ UNCHANGED new_img
     ELSE IF Len(new_img.shape) = 2
     THEN /\ pc' = "error"
          /\ err' = "IndexError: too many indices for array"
          /\ UNCHANGED new_img
     ELSE /\ pc' = "done"
          /\ new_img' = [new_img EXCEPT !.data =
               [r \in Rows(height) |-> [c \in Cols(width) |->
                  image.data[NormIdx(newy[r][c], oheight(image))]
                            [NormIdx(newx[r][c], owidth(image))]]]]
          /\ UNCHANGED err
  /\ UNCHANGED <<pil, angle, width, height, image, newx, newy, divByZero>>

Next == invoke \/ Allocate \/ Rotate \/ Wrap \/ Index \/ Sample

Spec == Init /\ [][Next]_vars

(* --------------------------- derived notions --------------------------- *)
Called == pc # "start"
PositiveSource == Called /\ owidth(image) > 0 /\ oheight(image) > 0
HasChannels == Called /\ Len(image.shape) = 3
Cells == Rows(height) \X Cols(width)

\* floor(v) mod o in integer arithmetic, for a finite v and o > 0
FloorIdx(v, o) ==
  (IF v.m % Scale = 0 /\ v.r < 0 THEN (v.m \div Scale) - 1 ELSE v.m \div Scale) % o

\* the value carries no binary64 residual: it is the exact real m/Scale
Exact(v) == v.fin /\ v.r = 0

\* the source cell the code reads for target cell (r, c) under angle a
SourceCell(r, c, img, a) ==
  <<WrapIndex(RotY(c, r, img, a), oheight(img), 0),
    WrapIndex(RotX(c, r, img, a), owidth(img), 0)>>

\* the target the code returns for a finite angle and a positive 3-D source
OutputData(W, H, img, a) ==
  [r \in Rows(H) |-> [c \in Cols(W) |->
     img.data[SourceCell(r, c, img, a)[1]][SourceCell(r, c, img, a)[2]]]]

\* the source pixel that the centre offset puts at target cell (r, c) when
\* nothing is rotated
ShiftedPixel(r, c) ==
  image.data[(r + (oheight(image) \div 2)) % oheight(image)]
            [(c + (owidth(image) \div 2)) % owidth(image)]

Finished == pc \in {"done", "error"}

(* ------------------------------- claims -------------------------------- *)

\* C1 (wrap totality): for a finite angle and a source with positive
\* height and width, every index pair that lines 46-59 produce lies in
\* [0, owidth) x [0, oheight), whatever the rotated coordinate was.
C1_WrapTotality ==
  (pc \in {"indexed", "done", "error"} /\ IsFinite(angle) /\ PositiveSource) =>
    \A rc \in Cells :
       /\ 0 <= newx[rc[1]][rc[2]] /\ newx[rc[1]][rc[2]] < owidth(image)
       /\ 0 <= newy[rc[1]][rc[2]] /\ newy[rc[1]][rc[2]] < oheight(image)

\* a run over a source at least 2x2 whose rotated coordinates go below 0
\* in one cell and reach owidth and oheight in others
C1_Witness ==
  /\ pc = "indexed" /\ IsFinite(angle) /\ PositiveSource
  /\ owidth(image) >= 2 /\ oheight(image) >= 2
  /\ \E rc \in Cells : LtZero(RotX(rc[2], rc[1], image, angle))
  /\ \E rc \in Cells : GeqInt(RotX(rc[2], rc[1], image, angle), owidth(image))
  /\ \E rc \in Cells : GeqInt(RotY(rc[2], rc[1], image, angle), oheight(image))

\* C2 as stated (identity): with angle 0 and a target of the source's size
\* the call returns the source unchanged.
C2_Identity ==
  (pc = "done" /\ angle = Finite(0)
     /\ width = owidth(image) /\ height = oheight(image)) =>
    new_img.data = image.data

\* C2 as amended: with angle 0 and a target of the source's size, a source
\* with a channel axis comes back cyclically shifted by (oheight // 2,
\* owidth // 2), and a 2-D source ends in the IndexError of line 61.
C2_ShiftedCopy ==
  (Finished /\ angle = Finite(0) /\ PositiveSource
     /\ width = owidth(image) /\ height = oheight(image)) =>
    IF HasChannels
    THEN pc = "done" /\ \A rc \in Cells : new_img.data[rc[1]][rc[2]] = ShiftedPixel(rc[1], rc[2])
    ELSE pc = "error"

\* a same-size run at angle 0 whose result is not the source
C2_Witness ==
  /\ pc = "done" /\ angle = Finite(0)
  /\ width = owidth(image) /\ height = oheight(image)
  /\ owidth(image) >= 2 /\ oheight(image) >= 2
  /\ new_img.data # image.data

\* C3 as stated (tiling from the origin): with angle 0 and a target k times
\* as wide and m times as high as the source, target cell (r, c) holds
\* source[r mod oheight][c mod owidth].
C3_TiledFromOrigin ==
  (pc = "done" /\ angle = Finite(0)
     /\ width % owidth(image) = 0 /\ height % oheight(image) = 0) =>
    \A rc \in Cells :
       new_img.data[rc[1]][rc[2]] =
         image.data[rc[1] % oheight(image)][rc[2] % owidth(image)]

\* C3 as amended: with angle 0 and such a target, a source with a channel
\* axis is tiled exactly, the tiles starting at source cell (oheight // 2,
\* owidth // 2) rather than at its origin; a 2-D source ends in the
\* IndexError of line 61.
C3_TiledFromCentre ==
  (Finished /\ angle = Finite(0) /\ PositiveSource
     /\ width % owidth(image) = 0 /\ height % oheight(image) = 0) =>
    IF HasChannels
    THEN /\ pc = "done"
         /\ \A rc \in Cells :
              /\ new_img.data[rc[1]][rc[2]] = ShiftedPixel(rc[1], rc[2])
              /\ \E sr \in Rows(oheight(image)), sc \in Cols(owidth(image)) :
                   new_img.data[rc[1]][rc[2]] = image.data[sr][sc]
    ELSE pc = "error"

\* the 2x2 checker [[0,1],[1,0]] on a 4x4 target at angle 0: the rows of the
\* first band are 0,1,0,1 / 1,0,1,0 / 0,1,0,1 / 1,0,1,0 (1.0 is byte 255)
C3_Witness ==
  /\ pc = "done" /\ angle = Finite(0)
  /\ owidth(image) = 2 /\ oheight(image) = 2 /\ width = 4 /\ height = 4
  /\ image.data[0][0][1] = 0 /\ image.data[0][1][1] = 255
  /\ image.data[1][0][1] = 255 /\ image.data[1][1][1] = 0
  /\ \A rc \in Cells : new_img.data[rc[1]][rc[2]][1] = 255 * ((rc[1] + rc[2]) % 2)

\* C4 (channel preservation): for a finite angle and a source with positive
\* height and width, 2-D or 3-D, the call succeeds and the result has shape
\* (height, width) for a 2-D source and (height, width, C) for a 3-D one.
C4_ChannelPreservation ==
  (Finished /\ IsFinite(angle) /\ PositiveSource) =>
    /\ pc = "done"
    /\ new_img.shape = IF HasChannels
                       THEN <<height, width, image.shape[3]>>
                       ELSE <<height, width>>

\* C5 (degenerate tiling): for a 1x1 source and a finite angle the call
\* returns a target whose every cell is the single source pixel, every
\* wrapped index being (0, 0).
C5_UniformFromOnePixel ==
  (Finished /\ IsFinite(angle) /\ PositiveSource
     /\ owidth(image) = 1 /\ oheight(image) = 1) =>
    /\ pc = "done"
    /\ \A rc \in Cells :
         /\ newx[rc[1]][rc[2]] = 0 /\ newy[rc[1]][rc[2]] = 0
         /\ new_img.data[rc[1]][rc[2]] = image.data[0][0]

\* distance of two indices on an axis of size o that wraps around
CycDist(i, j, o) == IF (i - j) % o <= (j - i) % o THEN (i - j) % o ELSE (j - i) % o

\* the value is not an integer at pixel resolution
OffGrid(v) == v.fin /\ v.m % Scale # 0

PlusTurn(a) == [a EXCEPT !.deg = a.deg + 360]

\* C6 as stated (angle periodicity): the call with angle theta and the call
\* with theta + 360 return identical targets.
C6_Periodic ==
  (pc = "done" /\ IsFinite(angle)) =>
    new_img.data = OutputData(width, height, image, PlusTurn(angle))

\* C6 as amended: the targets for theta and theta + 360 agree in every cell
\* whose two rotated coordinates are not integers; where a rotated
\* coordinate is an integer the two calls read source cells at most one
\* step apart (cyclically) on that axis, because sin and cos of the two
\* angles differ in their last bits.
C6_PeriodicOffGrid ==
  (pc = "done" /\ IsFinite(angle)) =>
    \A rc \in Cells :
      LET x  == RotX(rc[2], rc[1], image, angle)
          y  == RotY(rc[2], rc[1], image, angle)
          s2 == SourceCell(rc[1], rc[2], image, PlusTurn(angle))
      IN  /\ CycDist(newy[rc[1]][rc[2]], s2[1], oheight(image)) <= 1
          /\ CycDist(newx[rc[1]][rc[2]], s2[2], owidth(image)) <= 1
          /\ OffGrid(y) => newy[rc[1]][rc[2]] = s2[1]
          /\ OffGrid(x) => newx[rc[1]][rc[2]] = s2[2]
          /\ (OffGrid(x) /\ OffGrid(y)) =>
               new_img.data[rc[1]][rc[2]] =
                 OutputData(width, height, image, PlusTurn(angle))[rc[1]][rc[2]]

\* a finished run at 30 degrees with a cell off the integer grid, whose
\* target is not the one 390 degrees gives
C6_Witness ==
  /\ pc = "done" /\ angle = Finite(30)
  /\ \E rc \in Cells : /\ OffGrid(RotX(rc[2], rc[1], image, angle))
                       /\ OffGrid(RotY(rc[2], rc[1], image, angle))
  /\ new_img.data # OutputData(width, height, image, PlusTurn(angle))

\* C7 (zero-sized source rejected): a source with oheight = 0 or owidth = 0
\* is turned away before the transform runs, so the wrap stage never divides
\* by zero and the run never gets past the call.
C7_ZeroDimRejected ==
  (Called /\ (oheight(image) = 0 \/ owidth(image) = 0)) =>
    /\ ~divByZero
    /\ pc \notin {"rotated", "wrapped", "indexed", "done"}

\* C8 (non-finite angle rejected): with a NaN or infinite angle the rotation
\* and wrap stages are never entered and no target is returned.
C8_NonFiniteRejected ==
  ~IsFinite(angle) => pc \notin {"rotated", "wrapped", "indexed", "done"}

\* C9 (sampler with centre offset): when the call returns, every cell of the
\* target has been written; for a finite angle cell (r, c) holds
\* source[wy][wx], wx and wy being the wrapped integer forms of
\* newx = c*cos - r*sin + owidth // 2 and newy = c*sin + r*cos + oheight // 2
\* (floor(newx) mod owidth where newx is exact), and at angle 0 it holds
\* source[(r + oheight // 2) mod oheight][(c + owidth // 2) mod owidth].
C9_SamplerCentreOffset ==
  pc = "done" =>
    /\ HasChannels
    /\ new_img.shape = <<height, width, image.shape[3]>>
    /\ \A rc \in Cells :
         LET x == RotX(rc[2], rc[1], image, angle)
             y == RotY(rc[2], rc[1], image, angle)
             t == new_img.data[rc[1]][rc[2]]
         IN  /\ \A k \in 1..image.shape[3] : t[k] # Unwritten
             /\ IsFinite(angle) =>
                  /\ t = image.data[newy[rc[1]][rc[2]]][newx[rc[1]][rc[2]]]
                  /\ <<newy[rc[1]][rc[2]], newx[rc[1]][rc[2]]>>
                       = SourceCell(rc[1], rc[2], image, angle)
                  /\ Exact(x) => newx[rc[1]][rc[2]] = FloorIdx(x, owidth(image))
                  /\ Exact(y) => newy[rc[1]][rc[2]] = FloorIdx(y, oheight(image))
             /\ angle = Finite(0) => t = ShiftedPixel(rc[1], rc[2])

\* a returned 150-degree run over a source of at least 2x2 with fractional
\* coordinates on both sides of zero
C9_Witness ==
  /\ pc = "done" /\ angle = Finite(150)
  /\ owidth(image) >= 2 /\ oheight(image) >= 2
  /\ \E rc \in Cells : LET x == RotX(rc[2], rc[1], image, angle)
                       IN  Exact(x) /\ OffGrid(x) /\ LtZero(x)
  /\ \E rc \in Cells : LET y == RotY(rc[2], rc[1], image, angle)
                       IN  Exact(y) /\ OffGrid(y) /\ ~LtZero(y)

\* C10 (the conditional adjustment is redundant in exact arithmetic): where
\* the rotated coordinate is an exact real, the index of the two-step wrap
\* (np.where adjustment, then modulo and cast) equals the index the modulo
\* and cast alone give on the unadjusted coordinate, which is
\* floor(newx) mod owidth; likewise for newy and oheight.
C10_AdjustRedundant ==
  (pc = "indexed" /\ IsFinite(angle) /\ PositiveSource) =>
    \A rc \in Cells :
      LET x == RotX(rc[2], rc[1], image, angle)
          y == RotY(rc[2], rc[1], image, angle)
      IN  /\ Exact(x) =>
               /\ newx[rc[1]][rc[2]] = AsInt(FloatMod(x, owidth(image)), 0)
               /\ newx[rc[1]][rc[2]] = FloorIdx(x, owidth(image))
          /\ Exact(y) =>
               /\ newy[rc[1]][rc[2]] = AsInt(FloatMod(y, oheight(image)), 0)
               /\ newy[rc[1]][rc[2]] = FloorIdx(y, oheight(image))

\* an indexed run over a source at least 2 high with an exact newy that is
\* a negative multiple of oheight (the adjustment lands on oheight itself)
\* and an exact newx that reaches owidth
C10_Witness ==
  /\ pc = "indexed" /\ IsFinite(angle) /\ PositiveSource /\ oheight(image) >= 2
  /\ \E rc \in Cells : LET y == RotY(rc[2], rc[1], image, angle)
                       IN  Exact(y) /\ LtZero(y) /\ y.m % (Scale * oheight(image)) = 0
  /\ \E rc \in Cells : LET x == RotX(rc[2], rc[1], image, angle)
                       IN  Exact(x) /\ GeqInt(x, owidth(image))

====
